---- MODULE Spec2Model ----
(***************************************************************************)
(* mtt: a command line time tracker (src/src/main.rs).                     *)
(*                                                                         *)
(* Two layers are modelled.                                                *)
(*   - The objects: TimerRecord, Timer and AppState with their methods,    *)
(*     driven call by call (specification Spec).  One object is under      *)
(*     test in a behaviour, as in the unit tests of the source: subject    *)
(*     says which.                                                         *)
(*   - The command line program: main() run by two processes that share    *)
(*     the state file (specification SpecCli).                             *)
(*                                                                         *)
(* Instants (DateTime<Utc>) and durations are integers in one tick unit;   *)
(* an instant minus an instant is a signed chrono::Duration, a             *)
(* std::time::Duration is a natural number.  All values stay far below the *)
(* widths of the Rust types, so no arithmetic wraps or panics.             *)
(***************************************************************************)
EXTENDS Integers, Sequences, FiniteSets, TLC

\* Instants range over 0..MaxTime.
MaxTime == 1
\* Timer.records holds at most MaxRecords records (cap on Timer::stop_timer).
MaxRecords == 2
\* AppState.total stays at most MaxTotal (cap on AppState::stop_timer).
MaxTotal == 2

Times == 0..MaxTime
Comments == {"", "coding"}

----------------------------------------------------------------------------
(* Option<T> and Result<T, E> *)

None == <<>>
Some(x) == <<x>>
is_some(o) == o # None
unwrap(o) == o[1]

Unit == "()"
Ok(v) == [ok |-> TRUE, val |-> <<v>>, err |-> "-"]
Err(e) == [ok |-> FALSE, val |-> <<>>, err |-> e]

\* chrono::Duration::to_std: a negative duration is out of range.
to_std(d) == IF d < 0 THEN Err("OutOfRangeError") ELSE Ok(d)

\* Result<Duration, _>::unwrap_or_default: Duration::default() is zero.
unwrap_or_default(r) == IF r.ok THEN r.val[1] ELSE 0

----------------------------------------------------------------------------
(* TimerRecord *)

TimerRecord_new(start, end, comment) == [start |-> start, end |-> end, comment |-> comment]

\* Faulty variant: no clamp.
TimerRecord_duration_mut(self) == self.end - self.start

TimerRecord_duration(self) == unwrap_or_default(to_std(self.end - self.start))

----------------------------------------------------------------------------
(* Timer *)

Timer_default == [records |-> <<>>, current_start |-> None]

\* Faulty variant: no check for a running timer.
Timer_start_timer_mut(self, start_time) ==
    [self |-> [self EXCEPT !.current_start = Some(start_time)], ret |-> Ok(Unit)]

\* Returns the timer after the call and the call's result.
Timer_start_timer(self, start_time) ==
    IF is_some(self.current_start)
    THEN [self |-> self, ret |-> Err("TimerAlreadyRunning")]
    ELSE [self |-> [self EXCEPT !.current_start = Some(start_time)], ret |-> Ok(Unit)]

\* Faulty variant: the record is put in front of the log.
Timer_stop_timer_mut(self, stop_time, comment) ==
    IF is_some(self.current_start)
    THEN LET record == TimerRecord_new(unwrap(self.current_start), stop_time, comment)
         IN  [self |-> [self EXCEPT !.records = <<record>> \o @, !.current_start = None],
              ret |-> Ok(record)]
    ELSE [self |-> self, ret |-> Err("NoTimerRunning")]

\* Faulty variant: the comment given is written into the records already there.
Timer_stop_timer_relabel(self, stop_time, comment) ==
    IF is_some(self.current_start)
    THEN LET record == TimerRecord_new(unwrap(self.current_start), stop_time, comment)
             old == [i \in 1..Len(self.records) |-> [self.records[i] EXCEPT !.comment = comment]]
         IN  [self |-> [self EXCEPT !.records = Append(old, record), !.current_start = None],
              ret |-> Ok(record)]
    ELSE [self |-> self, ret |-> Err("NoTimerRunning")]

\* The result is the record named `record` in the source, the one pushed.
Timer_stop_timer(self, stop_time, comment) ==
    IF is_some(self.current_start)
    THEN LET record == TimerRecord_new(unwrap(self.current_start), stop_time, comment)
         IN  [self |-> [self EXCEPT !.records = Append(@, record), !.current_start = None],
              ret |-> Ok(record)]
    ELSE [self |-> self, ret |-> Err("NoTimerRunning")]

RECURSIVE Duration_sum(_)
\* Duration::sum over the iterator of durations, front to back.
Duration_sum(durations) ==
    IF durations = <<>> THEN 0 ELSE durations[1] + Duration_sum(Tail(durations))

\* Faulty variant: every term is the first record's duration.
Timer_total_duration_mut(self) ==
    Duration_sum([i \in 1..Len(self.records) |-> TimerRecord_duration(self.records[1])])

Timer_total_duration(self) ==
    Duration_sum([i \in 1..Len(self.records) |-> TimerRecord_duration(self.records[i])])

Timer_is_running(self) == is_some(self.current_start)

----------------------------------------------------------------------------
(* AppState *)

AppState_default == [total |-> 0, current_start |-> None, timers |-> <<>>, active_timer |-> None]

\* Faulty variant: current_start is assigned before the check.
AppState_start_timer_mut(self, start_time) ==
    IF is_some(self.current_start)
    THEN [self |-> [self EXCEPT !.current_start = Some(start_time)],
          ret |-> Err("TimerAlreadyRunning")]
    ELSE [self |-> [self EXCEPT !.current_start = Some(start_time)], ret |-> Ok(Unit)]

AppState_start_timer(self, start_time) ==
    IF is_some(self.current_start)
    THEN [self |-> self, ret |-> Err("TimerAlreadyRunning")]
    ELSE [self |-> [self EXCEPT !.current_start = Some(start_time)], ret |-> Ok(Unit)]

\* Faulty variant: the absolute difference.
AppState_current_duration_mut(self, time) ==
    IF is_some(self.current_start)
    THEN Ok(IF time < unwrap(self.current_start)
            THEN unwrap(self.current_start) - time
            ELSE time - unwrap(self.current_start))
    ELSE Err("NoTimerRunning")

AppState_current_duration(self, time) ==
    IF is_some(self.current_start)
    THEN Ok(unwrap_or_default(to_std(time - unwrap(self.current_start))))
    ELSE Err("NoTimerRunning")

\* Faulty variant: the total is cleared when the call fails.
AppState_stop_timer_mut(self, stop_time) ==
    LET res == AppState_current_duration(self, stop_time)
    IN  IF res.ok
        THEN [self |-> [self EXCEPT !.total = @ + res.val[1], !.current_start = None], ret |-> res]
        ELSE [self |-> [self EXCEPT !.total = 0], ret |-> res]

\* The ? operator returns the error of current_duration before any assignment.
AppState_stop_timer(self, stop_time) ==
    LET res == AppState_current_duration(self, stop_time)
    IN  IF res.ok
        THEN [self |-> [self EXCEPT !.total = @ + res.val[1], !.current_start = None], ret |-> res]
        ELSE [self |-> self, ret |-> res]

AppState_is_timer_running(self) == is_some(self.current_start)

\* Faulty variant: current_start is left as it is.
AppState_abort_timer_mut(self) == [self |-> self, ret |-> Ok(Unit)]

AppState_abort_timer(self) == [self |-> [self EXCEPT !.current_start = None], ret |-> Ok(Unit)]

----------------------------------------------------------------------------
(* main: the match on the subcommand, lines 245-278 *)

SubCommands == {"Start", "Stop", "Abort", "Show", "Reset"}

\* A printed line: its fixed text, and the duration or error formatted into it.
Line(text) == [text |-> text, dur |-> None, err |-> None]
LineDur(text, d) == [text |-> text, dur |-> Some(d), err |-> None]
LineErr(text, e) == [text |-> text, dur |-> None, err |-> Some(e)]

\* Faulty variant: the run in progress is cleared too.
SubCommand_Reset_mut(state) == [state EXCEPT !.total = 0, !.current_start = None]

\* Faulty variant: the total is kept while a timer is running.
SubCommand_Reset_idle(state) ==
    IF is_some(state.current_start) THEN state ELSE [state EXCEPT !.total = 0]

\* The assignment of the Reset arm: state.total = Duration::from_secs(0).
SubCommand_Reset(state) == [state EXCEPT !.total = 0]

\* The state after the arm, the lines printed, and the AppError met (if any).
main_match(state, subcmd, now) ==
    CASE subcmd = "Start" ->
           LET r == AppState_start_timer(state, now)
           IN  IF ~r.ret.ok
               THEN [state |-> r.self, out |-> <<LineErr("Cannot start timer: ", r.ret.err)>>,
                     err |-> Some(r.ret.err)]
               ELSE [state |-> r.self, out |-> <<Line("Timer started.")>>, err |-> None]
      [] subcmd = "Stop" ->
           LET r == AppState_stop_timer(state, now)
           IN  IF ~r.ret.ok
               THEN [state |-> r.self,
                     out |-> <<LineErr("Cannot stop timer: ", r.ret.err),
                               LineDur("Total time: ", r.self.total)>>,
                     err |-> Some(r.ret.err)]
               ELSE [state |-> r.self,
                     out |-> <<LineDur("Tracked: ", r.ret.val[1]),
                               LineDur("Total time: ", r.self.total)>>,
                     err |-> None]
      [] subcmd = "Abort" ->
           [state |-> AppState_abort_timer(state).self,
            out |-> <<Line("Timer was stopped and duration discarded.")>>,
            err |-> None]
      [] subcmd = "Show" ->
           [state |-> state,
            out |-> (IF AppState_is_timer_running(state)
                     THEN <<LineDur("Current timer: ", AppState_current_duration(state, now).val[1])>>
                     ELSE <<>>) \o <<LineDur("Total: ", state.total)>>,
            err |-> None]
      [] subcmd = "Reset" ->
           [state |-> SubCommand_Reset(state),
            out |-> <<Line("Total duration was reset.")>>,
            err |-> None]

----------------------------------------------------------------------------
(* The state file *)

Absent == [kind |-> "absent"]
Unparsable == [kind |-> "unparsable"]

JNull == <<"null">>
JString(x) == <<"string", x>>

\* Serialize of DateTime<Utc>, String and Option: a JSON string or null.
ser_Option(o) == IF is_some(o) THEN JString(unwrap(o)) ELSE JNull
de_Option(j) == IF j = JNull THEN None ELSE Some(j[2])

\* #[derive(Serialize, Deserialize)] of TimerRecord.
ser_TimerRecord(r) ==
    [start |-> JString(r.start), end |-> JString(r.end), comment |-> JString(r.comment)]
de_TimerRecord(j) == [start |-> j.start[2], end |-> j.end[2], comment |-> j.comment[2]]

\* #[derive(Serialize, Deserialize)] of Timer: the records as a JSON array.
ser_Timer(t) ==
    [records |-> [i \in 1..Len(t.records) |-> ser_TimerRecord(t.records[i])],
     current_start |-> ser_Option(t.current_start)]
de_Timer(j) ==
    [records |-> [i \in 1..Len(j.records) |-> de_TimerRecord(j.records[i])],
     current_start |-> de_Option(j.current_start)]

\* A HashMap<String, Timer> as a JSON object: its members, in no order.
ser_HashMap(timers) == {<<n, ser_Timer(timers[n])>> : n \in DOMAIN timers}
de_HashMap(obj) ==
    [n \in {m[1] : m \in obj} |-> de_Timer((CHOOSE m \in obj : m[1] = n)[2])]

\* serde_json::to_writer of an AppState: the JSON document of its four fields.
to_writer(state) ==
    [total |-> [secs |-> state.total, nanos |-> 0],
     current_start |-> ser_Option(state.current_start),
     timers |-> ser_HashMap(state.timers),
     active_timer |-> ser_Option(state.active_timer)]

\* Faulty variant: the current_start of the timers is not read.
from_reader_mut(doc) ==
    [total |-> doc.total.secs,
     current_start |-> de_Option(doc.current_start),
     timers |-> [n \in DOMAIN de_HashMap(doc.timers) |->
                   [de_HashMap(doc.timers)[n] EXCEPT !.current_start = None]],
     active_timer |-> de_Option(doc.active_timer)]

\* serde_json::from_reader of a document to_writer wrote.
from_reader(doc) ==
    [total |-> doc.total.secs,
     current_start |-> de_Option(doc.current_start),
     timers |-> de_HashMap(doc.timers),
     active_timer |-> de_Option(doc.active_timer)]

\* Faulty variant: a file that does not parse reads as the default state.
read_appstate_mut(f) ==
    IF f.kind = "json" THEN Ok(from_reader(f.doc)) ELSE Ok(AppState_default)

\* File::open fails on an absent file; a file that is no AppState document fails to parse.
read_appstate(f) ==
    IF f.kind = "absent" THEN Ok(AppState_default)
    ELSE IF f.kind = "unparsable" THEN Err("serde_json::Error")
    ELSE Ok(from_reader(f.doc))

\* Faulty variant: an existing document is kept.
write_appstate_mut(f, state) ==
    IF f.kind = "json" THEN f ELSE [kind |-> "json", doc |-> to_writer(state)]

\* File::create truncates whatever is there; the file after the call.
write_appstate(f, state) == [kind |-> "json", doc |-> to_writer(state)]

\* Result<AppState, _>::unwrap_or_default
AppState_unwrap_or_default(r) == IF r.ok THEN r.val[1] ELSE AppState_default

----------------------------------------------------------------------------
(* The objects driven call by call *)

VARIABLES
    subject,   \* the object under test: "Timer" or "AppState"
    timer,     \* the Timer
    state,     \* the AppState
    call,      \* the last call: its function, arguments and result
    pre,       \* timer and state as they were before the last call
    atStart,   \* history: the object before its most recent successful start_timer,
               \* the instant passed to it, and whether a reset came since
    file,      \* the state file
    pc,        \* per process: where it is in main
    cmd,       \* per process: the subcommand parsed
    local,     \* per process: main's `state`
    seen,      \* per process: the file content its read_appstate saw
    report,    \* per process: what the match printed and the AppError it met
    stale,     \* per process: the file was written by another since this one read it
    exit       \* per process: the exit status of its last run, None while none has ended

objVars == <<subject, timer, state, call, pre, atStart>>
cliVars == <<file, pc, cmd, local, seen, report, stale, exit>>
vars == <<subject, timer, state, call, pre, atStart, file, pc, cmd, local, seen, report, stale, exit>>

Procs == {1, 2}

Call(fn, args, ret) == [fn |-> fn, args |-> args, ret |-> ret]
Snapshot == [timer |-> timer, state |-> state]

\* No call made yet on the object under test; no process started yet.
ObjFresh ==
    /\ timer = Timer_default
    /\ state = AppState_default
    /\ call = Call("default", <<>>, Ok(Unit))
    /\ pre = [timer |-> Timer_default, state |-> AppState_default]
    /\ atStart = [any |-> FALSE, before |-> [timer |-> Timer_default, state |-> AppState_default],
                  at |-> 0, reset |-> FALSE]

CliFresh ==
    /\ pc = [p \in Procs |-> "idle"]
    /\ cmd = [p \in Procs |-> "Show"]
    /\ local = [p \in Procs |-> AppState_default]
    /\ seen = [p \in Procs |-> Absent]
    /\ report = [p \in Procs |-> [out |-> <<>>, err |-> None]]
    /\ stale = [p \in Procs |-> FALSE]
    /\ exit = [p \in Procs |-> None]

\* A test constructs a Timer or an AppState: Timer::default(), AppState::default().
Init ==
    /\ subject \in {"Timer", "AppState"}
    /\ ObjFresh
    /\ file = Absent
    /\ CliFresh

\* Before the first run the state file is absent, or is a file that does not parse as
\* an AppState (one written by another version of the program, or cut short).
InitCli ==
    /\ subject = "AppState"
    /\ ObjFresh
    /\ file \in {Absent, Unparsable}
    /\ CliFresh

\* timer.start_timer(t)
TimerStart(t) ==
    /\ subject = "Timer"
    /\ LET r == Timer_start_timer(timer, t)
       IN  /\ timer' = r.self
           /\ call' = Call("Timer::start_timer", <<t>>, r.ret)
           /\ atStart' = IF r.ret.ok
                         THEN [any |-> TRUE, before |-> Snapshot, at |-> t, reset |-> FALSE]
                         ELSE atStart
    /\ pre' = Snapshot
    /\ UNCHANGED <<subject, state>>
    /\ UNCHANGED cliVars

\* timer.stop_timer(t, c)
TimerStop(t, c) ==
    /\ subject = "Timer"
    /\ Timer_is_running(timer) => Len(timer.records) < MaxRecords
    /\ LET r == Timer_stop_timer(timer, t, c)
       IN  /\ timer' = r.self
           /\ call' = Call("Timer::stop_timer", <<t, c>>, r.ret)
    /\ pre' = Snapshot
    /\ UNCHANGED <<subject, state, atStart>>
    /\ UNCHANGED cliVars

\* timer.total_duration()
TimerTotalDuration ==
    /\ subject = "Timer"
    /\ call' = Call("Timer::total_duration", <<>>, Ok(Timer_total_duration(timer)))
    /\ pre' = Snapshot
    /\ UNCHANGED <<subject, timer, state, atStart>>
    /\ UNCHANGED cliVars

\* timer.is_running()
TimerIsRunning ==
    /\ subject = "Timer"
    /\ call' = Call("Timer::is_running", <<>>, Ok(Timer_is_running(timer)))
    /\ pre' = Snapshot
    /\ UNCHANGED <<subject, timer, state, atStart>>
    /\ UNCHANGED cliVars

\* timer.records[i].duration()
RecordDuration(i) ==
    /\ subject = "Timer"
    /\ i \in 1..Len(timer.records)
    /\ call' = Call("TimerRecord::duration", <<i>>, Ok(TimerRecord_duration(timer.records[i])))
    /\ pre' = Snapshot
    /\ UNCHANGED <<subject, timer, state, atStart>>
    /\ UNCHANGED cliVars

\* state.start_timer(t)
AppStart(t) ==
    /\ subject = "AppState"
    /\ LET r == AppState_start_timer(state, t)
       IN  /\ state' = r.self
           /\ call' = Call("AppState::start_timer", <<t>>, r.ret)
           /\ atStart' = IF r.ret.ok
                         THEN [any |-> TRUE, before |-> Snapshot, at |-> t, reset |-> FALSE]
                         ELSE atStart
    /\ pre' = Snapshot
    /\ UNCHANGED <<subject, timer>>
    /\ UNCHANGED cliVars

\* state.stop_timer(t)
AppStop(t) ==
    /\ subject = "AppState"
    /\ LET r == AppState_stop_timer(state, t)
       IN  /\ r.self.total <= MaxTotal
           /\ state' = r.self
           /\ call' = Call("AppState::stop_timer", <<t>>, r.ret)
    /\ pre' = Snapshot
    /\ UNCHANGED <<subject, timer, atStart>>
    /\ UNCHANGED cliVars

\* state.current_duration(t)
AppCurrentDuration(t) ==
    /\ subject = "AppState"
    /\ call' = Call("AppState::current_duration", <<t>>, AppState_current_duration(state, t))
    /\ pre' = Snapshot
    /\ UNCHANGED <<subject, timer, state, atStart>>
    /\ UNCHANGED cliVars

\* state.is_timer_running()
AppIsTimerRunning ==
    /\ subject = "AppState"
    /\ call' = Call("AppState::is_timer_running", <<>>, Ok(AppState_is_timer_running(state)))
    /\ pre' = Snapshot
    /\ UNCHANGED <<subject, timer, state, atStart>>
    /\ UNCHANGED cliVars

\* state.abort_timer()
AppAbort ==
    /\ subject = "AppState"
    /\ LET r == AppState_abort_timer(state)
       IN  /\ state' = r.self
           /\ call' = Call("AppState::abort_timer", <<>>, r.ret)
    /\ pre' = Snapshot
    /\ UNCHANGED <<subject, timer, atStart>>
    /\ UNCHANGED cliVars

\* The Show and Reset arms of main's match, applied to the AppState under test.
AppArm(subcmd, t) ==
    /\ subject = "AppState"
    /\ subcmd \in {"Show", "Reset"}
    /\ state' = main_match(state, subcmd, t).state
    /\ call' = Call(subcmd, <<t>>, Ok(Unit))
    /\ atStart' = IF subcmd = "Reset" THEN [atStart EXCEPT !.reset = TRUE] ELSE atStart
    /\ pre' = Snapshot
    /\ UNCHANGED <<subject, timer>>
    /\ UNCHANGED cliVars

Next ==
    \/ \E t \in Times : TimerStart(t)
    \/ \E t \in Times, c \in Comments : TimerStop(t, c)
    \/ TimerTotalDuration
    \/ TimerIsRunning
    \/ \E i \in 1..MaxRecords + 1 : RecordDuration(i)
    \/ \E t \in Times : AppStart(t)
    \/ \E t \in Times : AppStop(t)
    \/ \E t \in Times : AppCurrentDuration(t)
    \/ AppIsTimerRunning
    \/ AppAbort
    \/ \E t \in Times, subcmd \in {"Show", "Reset"} : AppArm(subcmd, t)

Spec == Init /\ [][Next]_vars

----------------------------------------------------------------------------
(* A Timer and an AppState, both from default(), given the same calls of start_timer *)
(* and stop_timer (specification SpecPair)                                           *)

InitPair ==
    /\ subject = "Both"
    /\ ObjFresh
    /\ file = Absent
    /\ CliFresh

\* timer.start_timer(t) and state.start_timer(t)
BothStart(t) ==
    /\ subject = "Both"
    /\ LET r == Timer_start_timer(timer, t)
           a == AppState_start_timer(state, t)
       IN  /\ timer' = r.self
           /\ state' = a.self
           /\ call' = Call("start_timer", <<t>>, [timer |-> r.ret, state |-> a.ret])
           /\ atStart' = IF r.ret.ok
                         THEN [any |-> TRUE, before |-> Snapshot, at |-> t, reset |-> FALSE]
                         ELSE atStart
    /\ pre' = Snapshot
    /\ UNCHANGED subject
    /\ UNCHANGED cliVars

\* timer.stop_timer(t, c) and state.stop_timer(t)
BothStop(t, c) ==
    /\ subject = "Both"
    /\ Timer_is_running(timer) => Len(timer.records) < MaxRecords
    /\ LET r == Timer_stop_timer(timer, t, c)
           a == AppState_stop_timer(state, t)
       IN  /\ a.self.total <= MaxTotal
           /\ timer' = r.self
           /\ state' = a.self
           /\ call' = Call("stop_timer", <<t, c>>, [timer |-> r.ret, state |-> a.ret])
    /\ pre' = Snapshot
    /\ UNCHANGED <<subject, atStart>>
    /\ UNCHANGED cliVars

NextPair ==
    \/ \E t \in Times : BothStart(t)
    \/ \E t \in Times, c \in Comments : BothStop(t, c)

SpecPair == InitPair /\ [][NextPair]_vars

----------------------------------------------------------------------------
(* main, run by the processes of Procs on one state file *)

\* Opts::parse and read_appstate(..).unwrap_or_default(): lines 240-243.
MainRead(p, subcmd) ==
    /\ pc[p] \in {"idle", "done"}
    /\ pc' = [pc EXCEPT ![p] = "loaded"]
    /\ cmd' = [cmd EXCEPT ![p] = subcmd]
    /\ seen' = [seen EXCEPT ![p] = file]
    /\ local' = [local EXCEPT ![p] = AppState_unwrap_or_default(read_appstate(file))]
    /\ report' = [report EXCEPT ![p] = [out |-> <<>>, err |-> None]]
    /\ stale' = [stale EXCEPT ![p] = FALSE]
    /\ exit' = [exit EXCEPT ![p] = None]
    /\ UNCHANGED file
    /\ UNCHANGED objVars

\* The match on the subcommand with Utc::now() = now: lines 245-278.
MainMatch(p, now) ==
    /\ pc[p] = "loaded"
    /\ LET r == main_match(local[p], cmd[p], now)
       IN  /\ r.state.total <= MaxTotal
           /\ local' = [local EXCEPT ![p] = r.state]
           /\ report' = [report EXCEPT ![p] = [out |-> r.out, err |-> r.err]]
    /\ pc' = [pc EXCEPT ![p] = "matched"]
    /\ UNCHANGED <<file, cmd, seen, stale, exit>>
    /\ UNCHANGED objVars

\* Faulty variant: a Show, which changes nothing of the state, does not write.
MainWrite_mut(p) ==
    /\ pc[p] = "matched"
    /\ file' = IF cmd[p] = "Show" THEN file ELSE write_appstate(file, local[p])
    /\ exit' = [exit EXCEPT ![p] = Some(0)]
    /\ pc' = [pc EXCEPT ![p] = "done"]
    /\ stale' = [q \in Procs |-> IF q # p /\ pc[q] \in {"loaded", "matched"} THEN TRUE ELSE stale[q]]
    /\ UNCHANGED <<cmd, local, seen, report>>
    /\ UNCHANGED objVars

\* write_appstate(&state, &state_path).unwrap() and the end of the process: line 280.
\* main returns () after it, whatever the match met: the exit status is 0.
MainWrite(p) ==
    /\ pc[p] = "matched"
    /\ file' = write_appstate(file, local[p])
    /\ exit' = [exit EXCEPT ![p] = Some(0)]
    /\ pc' = [pc EXCEPT ![p] = "done"]
    /\ stale' = [q \in Procs |-> IF q # p /\ pc[q] \in {"loaded", "matched"} THEN TRUE ELSE stale[q]]
    /\ UNCHANGED <<cmd, local, seen, report>>
    /\ UNCHANGED objVars

NextCli ==
    \/ \E p \in Procs, subcmd \in SubCommands : MainRead(p, subcmd)
    \/ \E p \in Procs, now \in Times : MainMatch(p, now)
    \/ \E p \in Procs : MainWrite(p)

SpecCli == InitCli /\ [][NextCli]_vars


----------------------------------------------------------------------------
(* AppState as the registry of named timers (specification SpecReg).  The fields     *)
(* timers and active_timer are in the source; the methods on them are described in  *)
(* the design of the registry only.                                                 *)

Names == {"work", "play"}
RegTimes == {0, MaxTime}
RegComments == {"coding"}

\* HashMap::insert / the map with name bound to t.
Inserted(timers, name, t) ==
    [n \in DOMAIN timers \cup {name} |-> IF n = name THEN t ELSE timers[n]]

\* Faulty variant: a timer of that name is replaced.
AppState_create_timer_mut(self, name) ==
    [self |-> [self EXCEPT !.timers = Inserted(@, name, Timer_default)], ret |-> Ok(Timer_default)]

AppState_create_timer(self, name) ==
    IF name \in DOMAIN self.timers
    THEN [self |-> self, ret |-> Err("DuplicateTimerName")]
    ELSE [self |-> [self EXCEPT !.timers = Inserted(@, name, Timer_default)],
          ret |-> Ok(Timer_default)]

AppState_get_timer(self, name) ==
    IF name \in DOMAIN self.timers THEN Some(self.timers[name]) ELSE None

\* Faulty variant: the name is not looked up.
AppState_set_timer_active_mut(self, name) ==
    [self |-> [self EXCEPT !.active_timer = Some(name)], ret |-> Ok(Unit)]

AppState_set_timer_active(self, name) ==
    IF name \in DOMAIN self.timers
    THEN [self |-> [self EXCEPT !.active_timer = Some(name)], ret |-> Ok(Unit)]
    ELSE [self |-> self, ret |-> Err("NoSuchTimer")]

\* Faulty variant: a name that is no key gives a fresh timer.
AppState_get_active_timer_mut(self) ==
    IF is_some(self.active_timer)
    THEN IF unwrap(self.active_timer) \in DOMAIN self.timers
         THEN Some(self.timers[unwrap(self.active_timer)])
         ELSE Some(Timer_default)
    ELSE None

AppState_get_active_timer(self) ==
    IF is_some(self.active_timer)
    THEN AppState_get_timer(self, unwrap(self.active_timer))
    ELSE None

AppState_has_active_timer(self) == is_some(AppState_get_active_timer(self))

\* The records held by all the timers of the registry.
RecordCount(self) ==
    LET RECURSIVE count(_)
        count(S) == IF S = {} THEN 0
                    ELSE LET n == CHOOSE m \in S : TRUE
                         IN  Len(self.timers[n].records) + count(S \ {n})
    IN  count(DOMAIN self.timers)

\* State files whose active_timer names a timer they do not hold.
StaleFiles ==
    {write_appstate(Absent, [AppState_default EXCEPT !.active_timer = Some(n)]) : n \in Names}

InitReg ==
    /\ subject = "Registry"
    /\ ObjFresh
    /\ file = Absent
    /\ CliFresh

\* state.create_timer(name)
RegCreateTimer(name) ==
    /\ subject = "Registry"
    /\ LET r == AppState_create_timer(state, name)
       IN  /\ state' = r.self
           /\ call' = Call("AppState::create_timer", <<name>>, r.ret)
    /\ pre' = Snapshot
    /\ UNCHANGED <<subject, timer, atStart>>
    /\ UNCHANGED cliVars

\* state.get_timer(name)
RegGetTimer(name) ==
    /\ subject = "Registry"
    /\ call' = Call("AppState::get_timer", <<name>>, Ok(AppState_get_timer(state, name)))
    /\ pre' = Snapshot
    /\ UNCHANGED <<subject, timer, state, atStart>>
    /\ UNCHANGED cliVars

\* state.set_timer_active(name)
RegSetTimerActive(name) ==
    /\ subject = "Registry"
    /\ LET r == AppState_set_timer_active(state, name)
       IN  /\ state' = r.self
           /\ call' = Call("AppState::set_timer_active", <<name>>, r.ret)
    /\ pre' = Snapshot
    /\ UNCHANGED <<subject, timer, atStart>>
    /\ UNCHANGED cliVars

\* state.get_active_timer()
RegGetActiveTimer ==
    /\ subject = "Registry"
    /\ call' = Call("AppState::get_active_timer", <<>>, Ok(AppState_get_active_timer(state)))
    /\ pre' = Snapshot
    /\ UNCHANGED <<subject, timer, state, atStart>>
    /\ UNCHANGED cliVars

\* state.has_active_timer()
RegHasActiveTimer ==
    /\ subject = "Registry"
    /\ call' = Call("AppState::has_active_timer", <<>>, Ok(AppState_has_active_timer(state)))
    /\ pre' = Snapshot
    /\ UNCHANGED <<subject, timer, state, atStart>>
    /\ UNCHANGED cliVars

\* start_timer(t) on the timer that get_timer(name) found
RegStartTimer(name, t) ==
    /\ subject = "Registry"
    /\ name \in DOMAIN state.timers
    /\ LET r == Timer_start_timer(state.timers[name], t)
       IN  /\ state' = [state EXCEPT !.timers[name] = r.self]
           /\ call' = Call("Timer::start_timer", <<name, t>>, r.ret)
    /\ pre' = Snapshot
    /\ UNCHANGED <<subject, timer, atStart>>
    /\ UNCHANGED cliVars

\* stop_timer(t, c) on the timer that get_timer(name) found
RegStopTimer(name, t, c) ==
    /\ subject = "Registry"
    /\ name \in DOMAIN state.timers
    /\ Timer_is_running(state.timers[name]) => RecordCount(state) < MaxRecords
    /\ LET r == Timer_stop_timer(state.timers[name], t, c)
       IN  /\ state' = [state EXCEPT !.timers[name] = r.self]
           /\ call' = Call("Timer::stop_timer", <<name, t, c>>, r.ret)
    /\ pre' = Snapshot
    /\ UNCHANGED <<subject, timer, atStart>>
    /\ UNCHANGED cliVars

\* write_appstate of the state to a file, then read_appstate of that file
RegWriteRead ==
    /\ subject = "Registry"
    /\ call' = Call("write_appstate; read_appstate", <<write_appstate(Absent, state)>>,
                    read_appstate(write_appstate(Absent, state)))
    /\ pre' = Snapshot
    /\ UNCHANGED <<subject, timer, state, atStart>>
    /\ UNCHANGED cliVars

\* read_appstate(..).unwrap_or_default() of a file of StaleFiles
RegRead(f) ==
    /\ subject = "Registry"
    /\ state' = AppState_unwrap_or_default(read_appstate(f))
    /\ call' = Call("read_appstate", <<f>>, read_appstate(f))
    /\ pre' = Snapshot
    /\ UNCHANGED <<subject, timer, atStart>>
    /\ UNCHANGED cliVars

NextReg ==
    \/ \E name \in Names : RegCreateTimer(name)
    \/ \E name \in Names : RegGetTimer(name)
    \/ \E name \in Names : RegSetTimerActive(name)
    \/ RegGetActiveTimer
    \/ RegHasActiveTimer
    \/ \E name \in Names, t \in RegTimes : RegStartTimer(name, t)
    \/ \E name \in Names, t \in RegTimes, c \in RegComments : RegStopTimer(name, t, c)
    \/ RegWriteRead
    \/ \E f \in StaleFiles : RegRead(f)

SpecReg == InitReg /\ [][NextReg]_vars

----------------------------------------------------------------------------
(* Properties of the objects (specification Spec) *)

TimerWasRunning == Timer_is_running(pre.timer)
AppWasRunning == AppState_is_timer_running(pre.state)

\* end - start, and zero when end is before start.
Clamped(start, end) == IF end >= start THEN end - start ELSE 0

\* C1: a start_timer on a running Timer or AppState, whatever the instant passed,
\* returns TimerAlreadyRunning and changes nothing: current_start is still the instant
\* of the start that succeeded, the records (the total) are as before.
C1_StartWhileRunningFails ==
    /\ (call.fn = "Timer::start_timer" /\ TimerWasRunning) =>
          /\ call.ret = Err("TimerAlreadyRunning")
          /\ timer.current_start = Some(atStart.at)
          /\ timer.records = pre.timer.records
          /\ timer = pre.timer
    /\ (call.fn = "AppState::start_timer" /\ AppWasRunning) =>
          /\ call.ret = Err("TimerAlreadyRunning")
          /\ state.current_start = Some(atStart.at)
          /\ state.total = pre.state.total
          /\ state = pre.state

\* A second start, with another instant, of a Timer that has a record already.
C1_Witness ==
    /\ call.fn = "Timer::start_timer"
    /\ TimerWasRunning
    /\ ~call.ret.ok
    /\ call.args[1] # atStart.at
    /\ Len(timer.records) > 0

\* C2: a stop_timer on an idle Timer or AppState, whatever the instant and comment,
\* returns NoTimerRunning and changes nothing; so does current_duration on an idle
\* AppState.
C2_StopWhileIdleFails ==
    /\ (call.fn = "Timer::stop_timer" /\ ~TimerWasRunning) =>
          /\ call.ret = Err("NoTimerRunning")
          /\ timer = pre.timer
          /\ timer.current_start = None
    /\ (call.fn = "AppState::stop_timer" /\ ~AppWasRunning) =>
          /\ call.ret = Err("NoTimerRunning")
          /\ state = pre.state
          /\ state.current_start = None
    /\ (call.fn = "AppState::current_duration" /\ ~AppWasRunning) =>
          /\ call.ret = Err("NoTimerRunning")
          /\ state = pre.state

\* A stop of an idle AppState that has a total accumulated.
C2_Witness ==
    /\ call.fn = "AppState::stop_timer"
    /\ ~AppWasRunning
    /\ ~call.ret.ok
    /\ state.total > 0

\* C3: start_timer(t) on an idle Timer succeeds and sets current_start to t; the
\* stop_timer(t2, c) that follows succeeds, appends the one record (t, t2, c) at the
\* end of records, returns it and clears current_start; with t2 >= t the total
\* duration grows by t2 - t.
C3_StartThenStopRecords ==
    /\ (call.fn = "Timer::start_timer" /\ ~TimerWasRunning) =>
          /\ call.ret = Ok(Unit)
          /\ timer.current_start = Some(call.args[1])
          /\ atStart.at = call.args[1]
    /\ (call.fn = "Timer::stop_timer" /\ TimerWasRunning) =>
          LET t == atStart.at
              t2 == call.args[1]
              c == call.args[2]
              record == [start |-> t, end |-> t2, comment |-> c]
          IN  /\ call.ret.ok
              /\ pre.timer.current_start = Some(t)
              /\ timer.records = Append(pre.timer.records, record)
              /\ Len(timer.records) = Len(pre.timer.records) + 1
              /\ call.ret.val[1] = record
              /\ timer.current_start = None
              /\ t2 >= t =>
                    Timer_total_duration(timer) = Timer_total_duration(pre.timer) + (t2 - t)

\* A stop after a start, t2 > t, on a Timer that had a record already.
C3_Witness ==
    /\ call.fn = "Timer::stop_timer"
    /\ call.ret.ok
    /\ call.args[1] > atStart.at
    /\ Len(timer.records) = 2
    /\ Timer_total_duration(timer) > Timer_total_duration(pre.timer)

\* C4: a Timer and an AppState start idle; running changes to true only by a
\* start_timer that succeeds on an idle object, and to false only by a stop_timer
\* that succeeds or (AppState) by abort_timer; every other call leaves it as it is.
\* current_start holds at most one instant.
C4_TwoStateMachine ==
    /\ call.fn = "default" => ~Timer_is_running(timer) /\ ~AppState_is_timer_running(state)
    /\ Len(timer.current_start) <= 1 /\ Len(state.current_start) <= 1
    /\ (~TimerWasRunning /\ Timer_is_running(timer)) <=>
          (call.fn = "Timer::start_timer" /\ call.ret.ok)
    /\ (TimerWasRunning /\ ~Timer_is_running(timer)) <=>
          (call.fn = "Timer::stop_timer" /\ call.ret.ok)
    /\ (~AppWasRunning /\ AppState_is_timer_running(state)) <=>
          (call.fn = "AppState::start_timer" /\ call.ret.ok)
    /\ (AppWasRunning /\ ~AppState_is_timer_running(state)) <=>
          \/ call.fn = "AppState::stop_timer" /\ call.ret.ok
          \/ call.fn = "AppState::abort_timer" /\ AppWasRunning
    /\ call.fn \in {"Timer::total_duration", "Timer::is_running", "TimerRecord::duration",
                    "AppState::current_duration", "AppState::is_timer_running",
                    "Show", "Reset"} =>
          /\ timer.current_start = pre.timer.current_start
          /\ state.current_start = pre.state.current_start
    /\ (call.fn \in {"Timer::start_timer", "Timer::stop_timer", "AppState::start_timer",
                     "AppState::stop_timer"} /\ ~call.ret.ok) =>
          /\ timer.current_start = pre.timer.current_start
          /\ state.current_start = pre.state.current_start

\* A reset of a running AppState: it is still running.
C4_Witness ==
    /\ call.fn = "Reset"
    /\ AppWasRunning
    /\ AppState_is_timer_running(state)
    /\ pre.state.total > 0

\* C5 as stated: after abort_timer on a running AppState it is idle and the total and
\* the timers are what they were before the start_timer that began the run.
C5_AbortRestoresStartState ==
    (call.fn = "AppState::abort_timer" /\ AppWasRunning) =>
        /\ ~AppState_is_timer_running(state)
        /\ state.total = atStart.before.state.total
        /\ state.timers = atStart.before.state.timers

\* C5: abort_timer on a running AppState leaves it idle and leaves the total and the
\* timers as they were: no interval is recorded.  If no reset came since the
\* start_timer that began the run, the state is the one before that start.  A later
\* stop_timer that succeeds adds the interval from its own start_timer only.
C5_AbortDiscards ==
    /\ (call.fn = "AppState::abort_timer" /\ AppWasRunning) =>
          /\ ~AppState_is_timer_running(state)
          /\ state.total = pre.state.total
          /\ state.timers = pre.state.timers
          /\ ~atStart.reset => state = atStart.before.state
    /\ (call.fn = "AppState::start_timer" /\ call.ret.ok) =>
          /\ state.total = pre.state.total
          /\ state.timers = pre.state.timers
    /\ (call.fn = "AppState::stop_timer" /\ call.ret.ok) =>
          /\ state.total = pre.state.total + Clamped(atStart.at, call.args[1])
          /\ call.ret.val[1] = Clamped(atStart.at, call.args[1])

\* An abort of a run begun with a total accumulated, no reset since.
C5_Witness ==
    /\ call.fn = "AppState::abort_timer"
    /\ AppWasRunning
    /\ ~atStart.reset
    /\ state.total > 0
    /\ state = atStart.before.state

\* C7: the duration of a record is end - start when end >= start and zero when
\* end < start, never negative; current_duration(time) of a running AppState is
\* clamped in the same way against current_start.
C7_DurationClamped ==
    /\ call.fn = "TimerRecord::duration" =>
          LET r == timer.records[call.args[1]]
          IN  /\ call.ret.ok
              /\ call.ret.val[1] = Clamped(r.start, r.end)
              /\ call.ret.val[1] >= 0
    /\ (call.fn = "AppState::current_duration" /\ AppWasRunning) =>
          /\ call.ret.ok
          /\ call.ret.val[1] = Clamped(unwrap(state.current_start), call.args[1])
          /\ call.ret.val[1] >= 0

\* The duration of a record that ends before it starts.
C7_Witness ==
    /\ call.fn = "TimerRecord::duration"
    /\ timer.records[call.args[1]].end < timer.records[call.args[1]].start
    /\ call.ret.val[1] = 0

RECURSIVE SumOver(_, _)
\* The sum of f over the finite set S, in no particular order.
SumOver(f, S) ==
    IF S = {} THEN 0
    ELSE LET x == CHOOSE y \in S : TRUE IN f[x] + SumOver(f, S \ {x})

\* The rearrangements of a sequence.
Rearranged(seq) ==
    LET n == Len(seq)
        bij == {g \in [1..n -> 1..n] : \A i, j \in 1..n : g[i] = g[j] => i = j}
    IN  {[i \in 1..n |-> seq[g[i]]] : g \in bij}

\* C8: total_duration of a Timer is the sum of the clamped durations of the records
\* it holds at the call (zero for none), and is the same for every rearrangement of
\* them.
C8_TotalIsSum ==
    call.fn = "Timer::total_duration" =>
        LET n == Len(timer.records)
            each == [i \in 1..n |-> Clamped(timer.records[i].start, timer.records[i].end)]
        IN  /\ call.ret.val[1] = SumOver(each, 1..n)
            /\ n = 0 => call.ret.val[1] = 0
            /\ \A other \in Rearranged(timer.records) :
                  Timer_total_duration([timer EXCEPT !.records = other]) = call.ret.val[1]

\* A total over two records of different duration, one of them clamped.
C8_Witness ==
    /\ call.fn = "Timer::total_duration"
    /\ Len(timer.records) = 2
    /\ timer.records[1].end < timer.records[1].start
    /\ timer.records[2].end > timer.records[2].start
    /\ call.ret.val[1] = 1

\* C19: the records of a Timer before a call are the first records of the Timer after
\* it, unchanged and in the same order; a stop_timer that succeeds adds exactly one
\* record at the end, whose start is the current_start set by the last start_timer
\* that succeeded and whose end and comment are the ones passed; every other call
\* leaves the records as they were.
C19_RecordsAppendOnly ==
    LET old == pre.timer.records
        new == timer.records
    IN  /\ Len(old) <= Len(new)
        /\ \A i \in 1..Len(old) : new[i] = old[i]
        /\ SubSeq(new, 1, Len(old)) = old
        /\ (call.fn = "Timer::stop_timer" /\ call.ret.ok) =>
              /\ Len(new) = Len(old) + 1
              /\ new[Len(new)].start = atStart.at
              /\ pre.timer.current_start = Some(atStart.at)
              /\ new[Len(new)].end = call.args[1]
              /\ new[Len(new)].comment = call.args[2]
        /\ ~(call.fn = "Timer::stop_timer" /\ call.ret.ok) =>
              /\ Len(new) = Len(old)
              /\ new = old

\* A second record was appended, with another comment than the first, which is as it
\* was.
C19_Witness ==
    /\ call.fn = "Timer::stop_timer"
    /\ call.ret.ok
    /\ Len(pre.timer.records) = 1
    /\ Len(timer.records) = 2
    /\ timer.records[1] = pre.timer.records[1]
    /\ timer.records[1].comment # timer.records[2].comment
    /\ timer.records[2].start = atStart.at

\* C20: Reset sets the total of the AppState to zero and changes nothing else: a
\* running timer stays running from the same current_start, timers and active_timer
\* are as they were.  The stop_timer that ends a run adds the whole interval from its
\* start (clamped at zero) to the total as it is then, zero if a reset came during
\* the run.  No call other than Reset lowers the total.
C20_ResetFrame ==
    /\ call.fn = "Reset" =>
          /\ state.total = 0
          /\ state = [pre.state EXCEPT !.total = 0]
          /\ state.current_start = pre.state.current_start
          /\ state.timers = pre.state.timers
          /\ state.active_timer = pre.state.active_timer
          /\ AppState_is_timer_running(state) = AppWasRunning
          /\ timer = pre.timer
    /\ call.fn # "Reset" => state.total >= pre.state.total
    /\ (call.fn = "AppState::stop_timer" /\ call.ret.ok) =>
          /\ pre.state.current_start = Some(atStart.at)
          /\ state.total = pre.state.total + Clamped(atStart.at, call.args[1])
          /\ atStart.reset =>
                /\ pre.state.total = 0
                /\ state.total = Clamped(atStart.at, call.args[1])

\* A run begun with a total, reset while running, then stopped: the total is the
\* interval of the run alone.
C20_Witness ==
    /\ call.fn = "AppState::stop_timer"
    /\ call.ret.ok
    /\ atStart.reset
    /\ atStart.before.state.total > 0
    /\ call.args[1] > atStart.at
    /\ state.total = call.args[1] - atStart.at

----------------------------------------------------------------------------
(* Properties of the program on its state file (specification SpecCli) *)

\* The AppState main gets from a file content.
LoadOf(f) == AppState_unwrap_or_default(read_appstate(f))

\* The step in which process p writes the file and ends.
WriteStep(p) == pc[p] = "matched" /\ pc'[p] = "done"

\* C6: an Abort run on an idle state reports NoTimerRunning.
C6_AbortWhileIdleIsAnError ==
    \A p \in Procs :
        (pc[p] \in {"matched", "done"} /\ cmd[p] = "Abort"
            /\ ~AppState_is_timer_running(LoadOf(seen[p]))) =>
        report[p].err = Some("NoTimerRunning")

\* C9 as stated: when the command of a run fails, the file content after the run is
\* the file content the run read.
C9_FileContentUnchanged ==
    [][\A p \in Procs : (WriteStep(p) /\ is_some(report[p].err)) => file' = seen[p]]_vars

\* C9: a run fails exactly on Start of a running state (TimerAlreadyRunning) and on
\* Stop of an idle one (NoTimerRunning).  The file it leaves holds the state it
\* loaded, nothing of the failed command: the very document it read when it read
\* one, and the document of the default state when the file was absent or unparsable.
C9_FailedCommandPersistsLoadedState ==
    [][\A p \in Procs : WriteStep(p) =>
          /\ is_some(report[p].err) <=>
                \/ cmd[p] = "Start" /\ AppState_is_timer_running(LoadOf(seen[p]))
                \/ cmd[p] = "Stop" /\ ~AppState_is_timer_running(LoadOf(seen[p]))
          /\ is_some(report[p].err) =>
                /\ report[p].err = IF cmd[p] = "Start" THEN Some("TimerAlreadyRunning")
                                                       ELSE Some("NoTimerRunning")
                /\ local[p] = LoadOf(seen[p])
                /\ file'.kind = "json"
                /\ LoadOf(file') = LoadOf(seen[p])
                /\ seen[p].kind = "json" => file' = seen[p]
                /\ seen[p].kind # "json" => LoadOf(file') = AppState_default
      ]_vars

\* A Start that failed on a running state with a total, written back.
C9_Witness ==
    /\ pc[1] = "done"
    /\ cmd[1] = "Start"
    /\ report[1].err = Some("TimerAlreadyRunning")
    /\ file = seen[1]
    /\ local[1].total > 0
    /\ ~stale[1]

\* C10: a run writes the state it computed from the content it read, whatever was
\* written in between, and its report shows no sign of it: when another run wrote
\* since the read (stale), that run's content is replaced by a state that does not
\* derive from it.  When no other run wrote since the read, the content replaced is
\* the content read, so the state written derives from the latest content.
C10_LastWriterWins ==
    [][\A p \in Procs : WriteStep(p) =>
          /\ file' = [kind |-> "json", doc |-> to_writer(local[p])]
          /\ LoadOf(file') = local[p]
          /\ \E now \in Times :
                LET r == main_match(LoadOf(seen[p]), cmd[p], now)
                IN  local[p] = r.state /\ report[p] = [out |-> r.out, err |-> r.err]
          /\ ~stale[p] =>
                /\ file = seen[p]
                /\ \E now \in Times :
                      file' = write_appstate(file, main_match(LoadOf(file), cmd[p], now).state)
          /\ stale[p] => file.kind = "json"
      ]_vars

\* Both runs read the same content; 1 started the timer and wrote, then 2 wrote its
\* reset of what it had read: the file holds no running timer.
C10_Witness ==
    /\ pc[1] = "done" /\ pc[2] = "done"
    /\ seen[1] = seen[2]
    /\ ~stale[1] /\ stale[2]
    /\ cmd[1] = "Start" /\ report[1].err = None
    /\ cmd[2] = "Reset" /\ report[2].err = None
    /\ AppState_is_timer_running(local[1])
    /\ LoadOf(seen[1]).total > 0
    /\ file = [kind |-> "json", doc |-> to_writer(local[2])]
    /\ ~AppState_is_timer_running(LoadOf(file))
    /\ LoadOf(file).total = 0

\* C11: read_appstate of an absent file is Ok with the default AppState (total zero,
\* not running, no timers, no active timer); read_appstate of a file that does not
\* parse is an error, not a default state.  main goes on with what it read, or with
\* the default.
C11_ReadAbsentOrUnparsable ==
    \A p \in Procs : pc[p] # "idle" =>
        LET res == read_appstate(seen[p])
        IN  /\ seen[p].kind = "absent" =>
                  /\ res.ok
                  /\ res = Ok(AppState_default)
                  /\ res.val[1].total = 0
                  /\ ~AppState_is_timer_running(res.val[1])
                  /\ DOMAIN res.val[1].timers = {}
                  /\ res.val[1].active_timer = None
            /\ seen[p].kind = "unparsable" =>
                  /\ ~res.ok
                  /\ res.val = <<>>
                  /\ res = Err("serde_json::Error")
            /\ seen[p].kind = "json" => res.ok
            /\ pc[p] = "loaded" => local[p] = (IF res.ok THEN res.val[1] ELSE AppState_default)

\* A run that has just read a file that does not parse.
C11_Witness ==
    /\ pc[1] = "loaded"
    /\ seen[1] = Unparsable
    /\ ~read_appstate(seen[1]).ok
    /\ local[1] = AppState_default

\* C16: a run whose command failed (Start of a running state, Stop of an idle one)
\* ends with a non-zero exit status, and a run whose command succeeded ends with
\* status zero.
C16_ExitStatusReflectsFailure ==
    \A p \in Procs : pc[p] = "done" =>
        /\ is_some(exit[p])
        /\ is_some(report[p].err) => unwrap(exit[p]) # 0
        /\ ~is_some(report[p].err) => unwrap(exit[p]) = 0

\* C17: a run that read a file that does not parse goes on with the default state:
\* it applies its subcommand to AppState::default() and ends by replacing the file
\* with the document of the result, whatever the subcommand (Show too) and whatever
\* other runs wrote in between.  The content it read is gone; what the file then
\* loads as is the default state, or for Start the default state running from the
\* instant of the run.
C17_UnparsableFileIsOverwritten ==
    [][\A p \in Procs : (WriteStep(p) /\ seen[p].kind = "unparsable") =>
          /\ \E now \in Times :
                LET r == main_match(AppState_default, cmd[p], now)
                IN  /\ local[p] = r.state
                    /\ report[p] = [out |-> r.out, err |-> r.err]
                    /\ file' = write_appstate(file, r.state)
                    /\ file' = [kind |-> "json", doc |-> to_writer(r.state)]
          /\ file'.kind = "json"
          /\ file' # seen[p]
          /\ read_appstate(file').ok
          /\ cmd[p] # "Start" => LoadOf(file') = AppState_default
          /\ cmd[p] = "Start" =>
                \E now \in Times :
                    LoadOf(file') = [AppState_default EXCEPT !.current_start = Some(now)]
      ]_vars

\* A Show run on a file that did not parse has ended: the file is the document of the
\* default state.
C17_Witness ==
    /\ pc[1] = "done"
    /\ cmd[1] = "Show"
    /\ seen[1] = Unparsable
    /\ ~stale[1]
    /\ report[1].err = None
    /\ file = [kind |-> "json", doc |-> to_writer(AppState_default)]

----------------------------------------------------------------------------
(* Properties of the registry (specification SpecReg) *)

\* C12: an AppState written with write_appstate and read back with read_appstate is
\* the same AppState: the same timer names, for each name the same records and the
\* same current_start, and the same active_timer; so a run loads what the run before
\* it saved.
C12_WriteReadRoundTrip ==
    call.fn = "write_appstate; read_appstate" =>
        /\ call.args[1] = [kind |-> "json", doc |-> to_writer(state)]
        /\ call.ret.ok
        /\ LET back == call.ret.val[1]
           IN  /\ DOMAIN back.timers = DOMAIN state.timers
               /\ \A n \in DOMAIN state.timers :
                     /\ back.timers[n].records = state.timers[n].records
                     /\ back.timers[n].current_start = state.timers[n].current_start
               /\ back.active_timer = state.active_timer
               /\ back = state
               /\ AppState_unwrap_or_default(call.ret) = state

\* Two timers, an idle one with a record and a running one with none, one of them
\* active.
C12_Witness ==
    /\ call.fn = "write_appstate; read_appstate"
    /\ DOMAIN state.timers = Names
    /\ ~Timer_is_running(state.timers["work"])
    /\ Len(state.timers["work"].records) > 0
    /\ Timer_is_running(state.timers["play"])
    /\ state.timers["play"].records = <<>>
    /\ state.active_timer = Some("work")
    /\ call.ret = Ok(state)

\* The name active_timer holds is a key of timers, or active_timer holds none.
ActiveIsKey(s) == is_some(s.active_timer) => unwrap(s.active_timer) \in DOMAIN s.timers

\* C13: create_timer(name) for a name the registry holds returns DuplicateTimerName
\* and changes nothing: the timer under that name keeps its records and its
\* current_start.  For a name it does not hold it adds an idle timer without records
\* under that name and changes nothing else.
C13_CreateTimer ==
    call.fn = "AppState::create_timer" =>
        LET name == call.args[1]
        IN  /\ name \in DOMAIN pre.state.timers =>
                  /\ call.ret = Err("DuplicateTimerName")
                  /\ DOMAIN state.timers = DOMAIN pre.state.timers
                  /\ state.timers[name].records = pre.state.timers[name].records
                  /\ state.timers[name].current_start = pre.state.timers[name].current_start
                  /\ state = pre.state
            /\ name \notin DOMAIN pre.state.timers =>
                  /\ call.ret.ok
                  /\ DOMAIN state.timers = DOMAIN pre.state.timers \cup {name}
                  /\ state.timers[name].records = <<>>
                  /\ ~Timer_is_running(state.timers[name])
                  /\ \A n \in DOMAIN pre.state.timers : state.timers[n] = pre.state.timers[n]
                  /\ state.active_timer = pre.state.active_timer

\* A second create_timer for a name whose timer is running and has a record.
C13_Witness ==
    /\ call.fn = "AppState::create_timer"
    /\ ~call.ret.ok
    /\ Len(state.timers[call.args[1]].records) > 0
    /\ Timer_is_running(state.timers[call.args[1]])

\* C14: set_timer_active(name) for a name the registry does not hold returns
\* NoSuchTimer and leaves active_timer (and the rest) as it was; for a name it holds
\* it sets active_timer to that name and changes nothing else.  active_timer is unset
\* in the default state and changes in no other call on the registry, so a name it
\* holds was a key when it was set; only a state read from a file can hold another.
C14_SetTimerActive ==
    /\ call.fn = "AppState::set_timer_active" =>
          LET name == call.args[1]
          IN  /\ name \notin DOMAIN pre.state.timers =>
                    /\ call.ret = Err("NoSuchTimer")
                    /\ state.active_timer = pre.state.active_timer
                    /\ state = pre.state
              /\ name \in DOMAIN pre.state.timers =>
                    /\ call.ret = Ok(Unit)
                    /\ state = [pre.state EXCEPT !.active_timer = Some(name)]
    /\ subject = "Registry" =>
          /\ call.fn = "default" => state.active_timer = None
          /\ state.active_timer # pre.state.active_timer =>
                \/ call.fn = "read_appstate"
                \/ /\ call.fn = "AppState::set_timer_active"
                   /\ call.ret.ok
                   /\ call.args[1] \in DOMAIN pre.state.timers
          /\ (ActiveIsKey(pre.state) /\ call.fn # "read_appstate") => ActiveIsKey(state)

\* A set_timer_active for an absent name while another timer is the active one.
C14_Witness ==
    /\ call.fn = "AppState::set_timer_active"
    /\ call.ret = Err("NoSuchTimer")
    /\ is_some(state.active_timer)
    /\ ActiveIsKey(state)
    /\ call.args[1] # unwrap(state.active_timer)

\* C15: get_active_timer() gives the timer under the name active_timer holds when
\* that name is a key of timers, and none, not an error, both when active_timer is
\* unset and when the name it holds is no key; has_active_timer() is true exactly
\* when get_active_timer() gives a timer.
C15_GetActiveTimer ==
    LET present == is_some(state.active_timer) /\ unwrap(state.active_timer) \in DOMAIN state.timers
    IN  /\ call.fn = "AppState::get_active_timer" =>
              /\ call.ret.ok
              /\ present => call.ret.val[1] = Some(state.timers[unwrap(state.active_timer)])
              /\ ~present => call.ret.val[1] = None
              /\ state = pre.state
        /\ call.fn = "AppState::has_active_timer" =>
              /\ call.ret.val[1] = present
              /\ call.ret.val[1] = is_some(AppState_get_active_timer(state))
              /\ state = pre.state

\* get_active_timer() where active_timer names a timer the registry, not empty, does
\* not hold.
C15_Witness ==
    /\ call.fn = "AppState::get_active_timer"
    /\ is_some(state.active_timer)
    /\ unwrap(state.active_timer) \notin DOMAIN state.timers
    /\ DOMAIN state.timers # {}
    /\ call.ret = Ok(None)

----------------------------------------------------------------------------
(* Properties of the Timer and the AppState in lockstep (specification SpecPair) *)

\* C18: after every start_timer and stop_timer given to a default Timer and a default
\* AppState alike, both calls succeeded or both failed with the same error, the
\* current_start of the two is the same, and the total of the AppState is the
\* total_duration of the Timer; the duration a stop of the AppState returns is the
\* duration of the record the stop of the Timer returns.
C18_AppStateIsOneTimer ==
    /\ state.current_start = timer.current_start
    /\ AppState_is_timer_running(state) = Timer_is_running(timer)
    /\ state.total = Timer_total_duration(timer)
    /\ call.fn \in {"start_timer", "stop_timer"} =>
          /\ call.ret.timer.ok = call.ret.state.ok
          /\ call.ret.timer.err = call.ret.state.err
    /\ (call.fn = "stop_timer" /\ call.ret.timer.ok) =>
          call.ret.state.val[1] = TimerRecord_duration(call.ret.timer.val[1])

\* Both were stopped at an instant before their start, having tracked time before:
\* a second record of duration zero, and a total that did not move.
C18_Witness ==
    /\ subject = "Both"
    /\ call.fn = "stop_timer"
    /\ call.ret.timer.ok /\ call.ret.state.ok
    /\ call.args[1] < atStart.at
    /\ Len(timer.records) = 2
    /\ state.total > 0
    /\ state.total = pre.state.total

====
